---- MODULE Spec2Model ----
(***************************************************************************)
(* wordpal: the flat-file vocabulary database (src/src/db.rs), its         *)
(* deterministic generator (src/src/rng.rs) and the calls made on them.    *)
(*                                                                         *)
(* Text is modelled as a sequence of one-character strings, so that        *)
(* splitting, number parsing and number formatting are computed and not    *)
(* assumed.  The file is a sequence of characters that write_db overwrites *)
(* from position 0.  The clock is the number of whole seconds since the    *)
(* epoch; Duration comparison `from_secs(t) > now` is `t > clock` because  *)
(* the sub-second part of `now` is never negative.                         *)
(***************************************************************************)
EXTENDS Integers, Sequences, FiniteSets

(***************************************************************************)
(* Bounds of the model                                                     *)
(***************************************************************************)
\* lines of the file the process is first started on
MaxLines == 2
\* calls of Rng::rand in one process (the generator is re-created by open)
MaxRand == 2
\* days the clock moves in a run
MaxDays == 1
\* I/O errors in a run
MaxFaults == 1
\* processes started in a run (calls of Database::open)
MaxOpens == 2
\* random_entry and update_timeout calls recorded for one Database
MaxCalls == 3
\* random_entry calls on the Database of a run with a reused index
MaxPicks == 3
\* random_entry and update_timeout calls in a run with a reused index
MaxReuse == 5

(***************************************************************************)
(* Program constants                                                       *)
(***************************************************************************)
\* db.rs:12
DAY == 86400
\* db.rs:15
TIMEOUT_DELAYS == <<0, 1, 7, 14, 30>>
\* db.rs:18
DELIMITER == <<";", ";", " ">>

NL == "\n"
CR == "\r"
DigitChars == <<"0", "1", "2", "3", "4", "5", "6", "7", "8", "9">>

(***************************************************************************)
(* Text helpers (the std functions the code calls)                         *)
(***************************************************************************)
IsDigit(c) == \E d \in 1..Len(DigitChars) : DigitChars[d] = c

DigitValue(c) == (CHOOSE d \in 1..Len(DigitChars) : DigitChars[d] = c) - 1

\* the decimal digits of u64::MAX, 18446744073709551615
U64MaxDigits == <<1, 8, 4, 4, 6, 7, 4, 4, 0, 7, 3, 7, 0, 9, 5, 5, 1, 6, 1, 5>>

RECURSIVE StripZeros(_)
StripZeros(ds) ==
    IF Len(ds) > 1 /\ ds[1] = 0 THEN StripZeros(Tail(ds)) ELSE ds

\* ds <= u64::MAX, both as digit sequences without leading zeros
RECURSIVE LexLeq(_, _)
LexLeq(a, b) ==
    IF a = <<>> THEN TRUE
    ELSE IF a[1] # b[1] THEN a[1] < b[1]
    ELSE LexLeq(Tail(a), Tail(b))

FitsU64(ds) ==
    LET s == StripZeros(ds) IN
    \/ Len(s) < Len(U64MaxDigits)
    \/ Len(s) = Len(U64MaxDigits) /\ LexLeq(s, U64MaxDigits)

RECURSIVE DigitsValue(_, _)
DigitsValue(ds, acc) ==
    IF ds = <<>> THEN acc ELSE DigitsValue(Tail(ds), acc * 10 + ds[1])

\* str::parse::<u64>() and, on a 64-bit target, str::parse::<usize>():
\* an optional "+", then one or more ASCII digits, no overflow.
\* The result is <<>> (Err) or <<value>> (Ok).
ParseUint(s) ==
    LET body == IF s # <<>> /\ s[1] = "+" THEN Tail(s) ELSE s IN
    IF body = <<>> \/ \E pos \in 1..Len(body) : ~IsDigit(body[pos]) THEN <<>>
    ELSE LET ds == [pos \in 1..Len(body) |-> DigitValue(body[pos])] IN
         IF FitsU64(ds) THEN <<DigitsValue(ds, 0)>> ELSE <<>>

\* Display of an unsigned integer: its decimal digits, no sign, no padding
RECURSIVE FormatUint(_)
FormatUint(n) ==
    IF n < 10 THEN <<DigitChars[n + 1]>>
    ELSE FormatUint(n \div 10) \o <<DigitChars[(n % 10) + 1]>>

MatchAt(s, pat, i) ==
    /\ i + Len(pat) - 1 <= Len(s)
    /\ SubSeq(s, i, i + Len(pat) - 1) = pat

\* str::split(pat): the pieces between the non-overlapping matches of pat,
\* found left to right; a string without a match is one piece.
RECURSIVE SplitFrom(_, _, _, _)
SplitFrom(s, pat, i, start) ==
    IF i > Len(s) THEN <<SubSeq(s, start, Len(s))>>
    ELSE IF MatchAt(s, pat, i)
         THEN <<SubSeq(s, start, i - 1)>>
              \o SplitFrom(s, pat, i + Len(pat), i + Len(pat))
         ELSE SplitFrom(s, pat, i + 1, start)

Split(s, pat) == SplitFrom(s, pat, 1, 1)

StripCR(l) ==
    IF l # <<>> /\ l[Len(l)] = CR THEN SubSeq(l, 1, Len(l) - 1) ELSE l

\* str::lines(): pieces ended by "\n" (a "\r" before it is dropped); the
\* text after the last "\n" is a line only if it is not empty.
RECURSIVE LinesFrom(_, _, _)
LinesFrom(s, i, start) ==
    IF i > Len(s)
    THEN IF start > Len(s) THEN <<>> ELSE <<StripCR(SubSeq(s, start, Len(s)))>>
    ELSE IF s[i] = NL
         THEN <<StripCR(SubSeq(s, start, i - 1))>> \o LinesFrom(s, i + 1, i + 1)
         ELSE LinesFrom(s, i + 1, start)

Lines(s) == LinesFrom(s, 1, 1)

(***************************************************************************)
(* Entry (db.rs:116-222)                                                   *)
(***************************************************************************)
Entry(word, tr_word, cur_iter, timeout, timed_out) ==
    [word |-> word, tr_word |-> tr_word, cur_iter |-> cur_iter,
     timeout |-> timeout, timed_out |-> timed_out]

\* parse_from_line with `>=` for `>` in the comparison with the clock
parse_from_line_geq(line, now) ==
    LET elements == Split(line, DELIMITER) IN
    IF Len(elements) # 2 /\ Len(elements) # 4 THEN <<>>
    ELSE IF Len(elements) = 2
    THEN <<Entry(elements[1], elements[2], 0, 0, FALSE)>>
    ELSE LET cur_iter == ParseUint(elements[3])
             timeout  == ParseUint(elements[4])
         IN  IF cur_iter = <<>> \/ timeout = <<>> THEN <<>>
             ELSE <<Entry(elements[1], elements[2], cur_iter[1], timeout[1],
                          timeout[1] >= now)>>

\* parse_from_line that only refuses lines of fewer than 2 elements
parse_from_line_lax(line, now) ==
    LET elements == Split(line, DELIMITER) IN
    IF Len(elements) < 2 THEN <<>>
    ELSE IF Len(elements) < 4
    THEN <<Entry(elements[1], elements[2], 0, 0, FALSE)>>
    ELSE LET cur_iter == ParseUint(elements[3])
             timeout  == ParseUint(elements[4])
         IN  IF cur_iter = <<>> \/ timeout = <<>> THEN <<>>
             ELSE <<Entry(elements[1], elements[2], cur_iter[1], timeout[1],
                          timeout[1] > now)>>

\* Entry::parse_from_line at clock `now`: <<>> (None) or <<entry>> (Some)
parse_from_line(line, now) ==
    LET elements == Split(line, DELIMITER) IN
    IF Len(elements) # 2 /\ Len(elements) # 4 THEN <<>>
    ELSE IF Len(elements) = 2
    THEN <<Entry(elements[1], elements[2], 0, 0, FALSE)>>
    ELSE LET cur_iter == ParseUint(elements[3])
             timeout  == ParseUint(elements[4])
         IN  IF cur_iter = <<>> \/ timeout = <<>> THEN <<>>
             ELSE <<Entry(elements[1], elements[2], cur_iter[1], timeout[1],
                          timeout[1] > now)>>

\* db_repr with the two numbers in the other order
db_repr_swapped(e) ==
    e.word \o DELIMITER \o e.tr_word \o DELIMITER
    \o FormatUint(e.timeout) \o DELIMITER \o FormatUint(e.cur_iter)

\* Entry::db_repr
db_repr(e) ==
    e.word \o DELIMITER \o e.tr_word \o DELIMITER
    \o FormatUint(e.cur_iter) \o DELIMITER \o FormatUint(e.timeout)

\* update_timeout that stops the increment one index too late
Entry_update_timeout_late(e, next, now) ==
    IF e.timed_out THEN [entry |-> e, panic |-> FALSE]
    ELSE LET cur_iter ==
                 IF next
                 THEN IF e.cur_iter # Len(TIMEOUT_DELAYS)
                      THEN e.cur_iter + 1 ELSE e.cur_iter
                 ELSE IF e.cur_iter # 0 THEN e.cur_iter - 1 ELSE e.cur_iter
         IN  IF cur_iter >= Len(TIMEOUT_DELAYS)
             THEN [entry |-> [e EXCEPT !.cur_iter = cur_iter], panic |-> TRUE]
             ELSE [entry |-> [e EXCEPT !.cur_iter  = cur_iter,
                                       !.timeout   = now + TIMEOUT_DELAYS[cur_iter + 1] * DAY,
                                       !.timed_out = TRUE],
                   panic |-> FALSE]

\* update_timeout that subtracts the delay from the clock
Entry_update_timeout_minus(e, next, now) ==
    IF e.timed_out THEN [entry |-> e, panic |-> FALSE]
    ELSE LET cur_iter ==
                 IF next
                 THEN IF e.cur_iter # Len(TIMEOUT_DELAYS) - 1
                      THEN e.cur_iter + 1 ELSE e.cur_iter
                 ELSE IF e.cur_iter # 0 THEN e.cur_iter - 1 ELSE e.cur_iter
         IN  IF cur_iter >= Len(TIMEOUT_DELAYS)
             THEN [entry |-> [e EXCEPT !.cur_iter = cur_iter], panic |-> TRUE]
             ELSE [entry |-> [e EXCEPT !.cur_iter  = cur_iter,
                                       !.timeout   = now - TIMEOUT_DELAYS[cur_iter + 1] * DAY,
                                       !.timed_out = TRUE],
                   panic |-> FALSE]

\* Entry::update_timeout at clock `now`.  The result is the entry as the
\* method leaves it and whether the method panicked: indexing
\* TIMEOUT_DELAYS out of bounds panics after cur_iter was assigned and
\* before timeout and timed_out are.
Entry_update_timeout(e, next, now) ==
    IF e.timed_out THEN [entry |-> e, panic |-> FALSE]
    ELSE LET cur_iter ==
                 IF next
                 THEN IF e.cur_iter # Len(TIMEOUT_DELAYS) - 1
                      THEN e.cur_iter + 1 ELSE e.cur_iter
                 ELSE IF e.cur_iter # 0 THEN e.cur_iter - 1 ELSE e.cur_iter
         IN  IF cur_iter >= Len(TIMEOUT_DELAYS)
             THEN [entry |-> [e EXCEPT !.cur_iter = cur_iter], panic |-> TRUE]
             ELSE [entry |-> [e EXCEPT !.cur_iter  = cur_iter,
                                       !.timeout   = now + TIMEOUT_DELAYS[cur_iter + 1] * DAY,
                                       !.timed_out = TRUE],
                   panic |-> FALSE]

(***************************************************************************)
(* Rng (rng.rs): a u64 is a sequence of 64 bits, bit 0 first: shifts, xor  *)
(* and the remainder are computed on all 64 bits                           *)
(***************************************************************************)
SeedHex == <<1, 3, 3, 7, 1, 3, 3, 7, 1, 3, 3, 7, 1, 3, 3, 7>>

Pow2(k) == CASE k = 0 -> 1 [] k = 1 -> 2 [] k = 2 -> 4 [] OTHER -> 8

\* Rng::new
Rng_new ==
    [bit \in 1..64 |->
        (SeedHex[16 - ((bit - 1) \div 4)] \div Pow2((bit - 1) % 4)) % 2]

Shl(sl, k) == [bit \in 1..64 |-> IF bit > k THEN sl[bit - k] ELSE 0]
Shr(sr, k) == [bit \in 1..64 |-> IF bit + k <= 64 THEN sr[bit + k] ELSE 0]
Xor(xa, xb) == [bit \in 1..64 |-> (xa[bit] + xb[bit]) % 2]

\* the value of bits lo..hi of a u64, at most 16 of them
RECURSIVE BitsValue(_, _, _)
BitsValue(u, lo, hi) ==
    IF hi < lo THEN 0 ELSE u[lo] + 2 * BitsValue(u, lo + 1, hi)

\* the 16-bit limb number k of a u64, limb 0 the least significant
Limb(u, k) == BitsValue(u, 16 * k + 1, 16 * k + 16)

\* the value of the u64 modulo n (0 < n < 32768), limb by limb from the
\* most significant one
Mod(u, n) ==
    LET r3 == Limb(u, 3) % n
        r2 == (r3 * 65536 + Limb(u, 2)) % n
        r1 == (r2 * 65536 + Limb(u, 1)) % n
    IN  (r1 * 65536 + Limb(u, 0)) % n

\* Rng::rand: the state after the call (the value returned is the state
\* before it)
Rng_rand(state) ==
    LET s1 == Xor(state, Shl(state, 13))
        s2 == Xor(s1, Shr(s1, 17))
    IN  Xor(s2, Shl(s2, 43))

\* Rng::range(min, max) on a generator in `state`: the value returned
Rng_range(state, min, max) == Mod(state, max - min + 1) + min

(***************************************************************************)
(* Database (db.rs:23-112)                                                 *)
(***************************************************************************)
RECURSIVE ParseLines(_, _)
ParseLines(ls, now) ==
    IF ls = <<>> THEN <<>>
    ELSE parse_from_line(Head(ls), now) \o ParseLines(Tail(ls), now)

\* the entries Database::open decodes, in file order
Decoded(contents, now) == ParseLines(Lines(contents), now)

\* Database::open: the two vectors built from the file's contents
Database_open(contents, now) ==
    LET es == Decoded(contents, now) IN
    [usable   |-> SelectSeq(es, LAMBDA e : ~e.timed_out),
     unusable |-> SelectSeq(es, LAMBDA e : e.timed_out)]

RECURSIVE Encode(_)
Encode(es) ==
    IF es = <<>> THEN <<>> ELSE db_repr(Head(es)) \o <<NL>> \o Encode(Tail(es))

\* the file after `bytes` were written from position 0: what was beyond
\* them stays
Overwrite(old, bytes) ==
    IF Len(bytes) >= Len(old) THEN bytes
    ELSE bytes \o SubSeq(old, Len(bytes) + 1, Len(old))

\* Database::write_db, the first k entries written (all of them when it
\* returns Ok)
Database_write_db(old, us, un, k) ==
    Overwrite(old, Encode(SubSeq(us \o un, 1, k)))

\* Vec::swap_remove(index), index counted from 0
swap_remove(v, index) ==
    LET n == Len(v) IN
    SubSeq([v EXCEPT ![index + 1] = v[n]], 1, n - 1)

\* random_entry that draws from 0..len instead of 0..len-1
Database_random_entry_len(us, state) ==
    IF Len(us) = 0 THEN <<>>
    ELSE LET num == Rng_range(state, 0, Len(us)) IN
         IF num < Len(us) THEN <<us[num + 1], num>> ELSE <<>>

\* Database::random_entry: <<>> (None) or <<entry, num>>
Database_random_entry(us, state) ==
    IF Len(us) = 0 THEN <<>>
    ELSE LET num == Rng_range(state, 0, Len(us) - 1) IN
         IF num < Len(us) THEN <<us[num + 1], num>> ELSE <<>>

\* update_timeout without the swap_remove: the entry is pushed and stays
Database_update_timeout_keeps(us, un, index, next, now) ==
    IF index >= Len(us) THEN [usable |-> us, unusable |-> un, panic |-> FALSE]
    ELSE LET r == Entry_update_timeout(us[index + 1], next, now) IN
         [usable   |-> [us EXCEPT ![index + 1] = r.entry],
          unusable |-> IF r.panic THEN un ELSE Append(un, r.entry),
          panic    |-> r.panic]

\* update_timeout with the swap_remove on the other vector
Database_update_timeout_other(us, un, index, next, now) ==
    IF index >= Len(us) THEN [usable |-> us, unusable |-> un, panic |-> FALSE]
    ELSE LET r == Entry_update_timeout(us[index + 1], next, now) IN
         IF r.panic
         THEN [usable   |-> [us EXCEPT ![index + 1] = r.entry],
               unusable |-> un, panic |-> TRUE]
         ELSE [usable   |-> SubSeq(us, 1, index) \o SubSeq(us, index + 2, Len(us)),
               unusable |-> IF index < Len(un)
                            THEN swap_remove(Append(un, r.entry), index)
                            ELSE Append(un, r.entry),
               panic    |-> FALSE]

\* update_timeout that takes an index past the end for the last entry
Database_update_timeout_last(us, un, index, next, now) ==
    IF Len(us) = 0 THEN [usable |-> us, unusable |-> un, panic |-> FALSE]
    ELSE LET at == IF index >= Len(us) THEN Len(us) - 1 ELSE index
             r  == Entry_update_timeout(us[at + 1], next, now)
         IN  IF r.panic
             THEN [usable   |-> [us EXCEPT ![at + 1] = r.entry],
                   unusable |-> un, panic |-> TRUE]
             ELSE [usable   |-> swap_remove([us EXCEPT ![at + 1] = r.entry], at),
                   unusable |-> Append(un, r.entry),
                   panic    |-> FALSE]

\* update_timeout that takes an index past the end modulo the length
Database_update_timeout_wraps(us, un, index, next, now) ==
    IF Len(us) = 0 THEN [usable |-> us, unusable |-> un, panic |-> FALSE]
    ELSE LET at == index % Len(us)
             r  == Entry_update_timeout(us[at + 1], next, now)
         IN  IF r.panic
             THEN [usable   |-> [us EXCEPT ![at + 1] = r.entry],
                   unusable |-> un, panic |-> TRUE]
             ELSE [usable   |-> swap_remove([us EXCEPT ![at + 1] = r.entry], at),
                   unusable |-> Append(un, r.entry),
                   panic    |-> FALSE]

\* Database::update_timeout: the two vectors after the call and whether it
\* panicked (then the push and the swap_remove did not run)
Database_update_timeout(us, un, index, next, now) ==
    IF index >= Len(us) THEN [usable |-> us, unusable |-> un, panic |-> FALSE]
    ELSE LET r == Entry_update_timeout(us[index + 1], next, now) IN
         IF r.panic
         THEN [usable   |-> [us EXCEPT ![index + 1] = r.entry],
               unusable |-> un, panic |-> TRUE]
         ELSE [usable   |-> swap_remove([us EXCEPT ![index + 1] = r.entry], index),
               unusable |-> Append(un, r.entry),
               panic    |-> FALSE]

(***************************************************************************)
(* Inputs: the files the program is first started on                       *)
(***************************************************************************)
W(c) == <<c>>

\* "a;; b": a new entry
LineNew == W("a") \o DELIMITER \o W("b")
\* "c;; d;; 4;; 0": a tracked entry on the last delay, not on a timeout
LineLast == W("c") \o DELIMITER \o W("d") \o DELIMITER \o W("4") \o DELIMITER \o W("0")
\* "e;; f;; 01;; +86400": a tracked entry on a timeout until the end of
\* day 1, its numbers written as parse accepts them and db_repr never
\* writes them
LineTimed == W("e") \o DELIMITER \o W("f") \o DELIMITER \o <<"0", "1">> \o DELIMITER
             \o <<"+", "8", "6", "4", "0", "0">>
\* "g;; h;; 5;; 0": an iteration that is no index of TIMEOUT_DELAYS
LineBeyond == W("g") \o DELIMITER \o W("h") \o DELIMITER \o W("5") \o DELIMITER \o W("0")
\* "p;;q": one field, for ";;" without the space is no delimiter
LineOne == <<"p", ";", ";", "q">>

InputLines == {LineNew, LineLast, LineTimed, LineBeyond, LineOne}

RECURSIVE Join(_)
Join(ls) == IF ls = <<>> THEN <<>> ELSE Head(ls) \o <<NL>> \o Join(Tail(ls))

InputFiles ==
    {Join(ls) : ls \in UNION {[1..n -> InputLines] : n \in 0..MaxLines}}

(***************************************************************************)
(* Inputs of the parser: files of one line, of every number of elements    *)
(* from 1 to 5 and, for 4 elements, every pair of the texts below in the   *)
(* two numeric elements; and two files of two lines                        *)
(***************************************************************************)
\* texts for the cur_iter element: 0, 4, 01, +1, the empty text, x, -1, 1x
IterTexts ==
    {<<"0">>, <<"4">>, <<"0", "1">>, <<"+", "1">>, <<>>, <<"x">>, <<"-", "1">>, <<"1", "x">>}

\* texts for the timeout element: 0, +86400, 86401, the empty text, -0,
\* "1 " and 18446744073709551616 (u64::MAX + 1)
TimeoutTexts ==
    {<<"0">>, <<"+", "8", "6", "4", "0", "0">>, <<"8", "6", "4", "0", "1">>, <<>>, <<"-", "0">>, <<"1", " ">>,
     <<"1", "8", "4", "4", "6", "7", "4", "4", "0", "7", "3", "7", "0", "9", "5", "5", "1", "6", "1", "6">>}

RECURSIVE JoinWith(_, _)
JoinWith(fields, pat) ==
    IF Len(fields) = 1 THEN fields[1]
    ELSE fields[1] \o pat \o JoinWith(Tail(fields), pat)

ParseInputLines ==
    {JoinWith(<<W("a"), W("b"), n3, n4>>, DELIMITER) :
        n3 \in IterTexts, n4 \in TimeoutTexts}
    \cup {<<>>, W("a"), <<"a", ";", ";", "b", ";", ";", "c">>,
          JoinWith(<<W("a"), W("b")>>, DELIMITER),
          JoinWith(<<<<>>, <<>>>>, DELIMITER),
          JoinWith(<<W("a"), W("b"), W("1")>>, DELIMITER),
          JoinWith(<<W("a"), W("b"), W("1"), W("0"), W("0")>>, DELIMITER)}

ParseInputFiles ==
    {Join(<<l>>) : l \in ParseInputLines}
    \cup {Join(<<LineOne, LineTimed>>),
          LineNew \o <<CR, NL>> \o LineOne \o <<NL>>}

\* seconds the clock moves in one step
ClockSteps == {DAY}

(***************************************************************************)
(* State                                                                   *)
(***************************************************************************)
VARIABLES
    file,       \* the characters of the database file
    clock,      \* SystemTime::now(), whole seconds since the epoch
    faults,     \* I/O errors so far
    opens,      \* calls of Database::open made
    pc,         \* "no_db": no Database; "open": a Database; "panicked"
    usable,     \* Database::usable
    unusable,   \* Database::unusable
    rng,        \* Database::rng
    nrand,      \* calls of Rng::rand on rng
    loaded,     \* history: the entries the last open decoded, in file order
    input,      \* history: the file the run started on
    last,       \* history: the last call and what it returned
    app,        \* the App of main.rs, or NoApp outside the application
    trace,      \* history: the random_entry and update_timeout calls made
                \* on this Database, with what they returned
    prev        \* history: the trace of the Database opened before this one

vars == <<file, clock, faults, opens, pc, usable, unusable, rng, nrand, loaded, input, last,
          app, trace, prev>>

\* a call: its arguments, what it returned and, for random_entry, the
\* entry and index returned; update_timeout carries the result of the
\* random_entry called right before it, if that was the call before
Call(op, args, outcome, picked) ==
    [op |-> op, args |-> args, outcome |-> outcome, picked |-> picked]

\* no App: the Database is driven by its methods
NoApp == [current_entry |-> <<>>, word |-> <<>>, tr_word |-> <<>>,
          tr_word_hidden |-> TRUE]

\* the variables that only the application and the two-Database runs use
others == <<app, trace, prev>>

Init ==
    /\ file \in InputFiles
    /\ clock = 0
    /\ faults = 0
    /\ opens = 0
    /\ pc = "no_db"
    /\ usable = <<>>
    /\ unusable = <<>>
    /\ rng = Rng_new
    /\ nrand = 0
    /\ loaded = <<>>
    /\ input = file
    /\ last = Call("none", <<>>, "none", <<>>)
    /\ app = NoApp
    /\ trace = <<>>
    /\ prev = <<>>

(***************************************************************************)
(* Operations                                                              *)
(***************************************************************************)
\* Database::open returns Ok: a process (a new one after a panic or an
\* exit) reads the file and builds the Database
Open ==
    LET db == Database_open(file, clock) IN
    /\ opens < MaxOpens
    /\ opens' = opens + 1
    /\ usable' = db.usable
    /\ unusable' = db.unusable
    /\ rng' = Rng_new
    /\ nrand' = 0
    /\ loaded' = Decoded(file, clock)
    /\ pc' = "open"
    /\ last' = Call("open", <<>>, "Ok", <<>>)
    /\ UNCHANGED <<file, clock, faults, input, others>>

\* Database::open returns Err (db.rs:45, 47): there is no Database
OpenErr ==
    /\ opens < MaxOpens
    /\ faults < MaxFaults
    /\ opens' = opens + 1
    /\ faults' = faults + 1
    /\ usable' = <<>>
    /\ unusable' = <<>>
    /\ rng' = Rng_new
    /\ nrand' = 0
    /\ loaded' = <<>>
    /\ pc' = "no_db"
    /\ last' = Call("open", <<>>, "Err", <<>>)
    /\ UNCHANGED <<file, clock, input, others>>

\* Database::random_entry
RandomEntry ==
    /\ pc = "open"
    /\ usable = <<>> \/ nrand < MaxRand
    /\ LET r == Database_random_entry(usable, rng) IN
       /\ last' = Call("random_entry", <<>>, IF r = <<>> THEN "None" ELSE "Some", r)
       /\ rng' = IF usable = <<>> THEN rng ELSE Rng_rand(rng)
       /\ nrand' = IF usable = <<>> THEN nrand ELSE nrand + 1
    /\ UNCHANGED <<file, clock, faults, opens, pc, usable, unusable, loaded, input, others>>

\* Database::update_timeout(index, next)
UpdateTimeout(index, next) ==
    /\ pc = "open"
    /\ LET r == Database_update_timeout(usable, unusable, index, next, clock) IN
       /\ usable' = r.usable
       /\ unusable' = r.unusable
       /\ pc' = IF r.panic THEN "panicked" ELSE "open"
       /\ last' = Call("update_timeout", <<index, next>>,
                       IF r.panic THEN "panic" ELSE "unit",
                       IF last.op = "random_entry" THEN last.picked ELSE <<>>)
    /\ UNCHANGED <<file, clock, faults, opens, rng, nrand, loaded, input, others>>

\* Database::write_db returns Ok
WriteDb ==
    /\ pc = "open"
    /\ file' = Database_write_db(file, usable, unusable, Len(usable) + Len(unusable))
    /\ last' = Call("write_db", <<>>, "Ok", <<>>)
    /\ UNCHANGED <<clock, faults, opens, pc, usable, unusable, rng, nrand, loaded, input, others>>

\* Database::write_db returns Err: the seek failed (k = 0) or the write of
\* entry k + 1 did, after k entries were written
WriteDbErr(k) ==
    /\ pc = "open"
    /\ faults < MaxFaults
    /\ faults' = faults + 1
    /\ file' = Database_write_db(file, usable, unusable, k)
    /\ last' = Call("write_db", <<>>, "Err", <<>>)
    /\ UNCHANGED <<clock, opens, pc, usable, unusable, rng, nrand, loaded, input, others>>

\* time passes
Tick(d) ==
    /\ clock + d <= MaxDays * DAY
    /\ clock' = clock + d
    /\ UNCHANGED <<file, faults, opens, pc, usable, unusable, rng, nrand, loaded, input, last, others>>

Next ==
    \/ Open
    \/ OpenErr
    \/ RandomEntry
    \/ \E index \in 0..Len(usable), next \in BOOLEAN : UpdateTimeout(index, next)
    \/ WriteDb
    \/ \E k \in 0..(Len(usable) + Len(unusable)) :
          k < Len(usable) + Len(unusable) /\ WriteDbErr(k)
    \/ \E d \in ClockSteps : Tick(d)

Spec == Init /\ [][Next]_vars

(***************************************************************************)
(* Two Databases opened one after the other on the same file at the same   *)
(* clock (nothing writes the file or moves the clock), each driven by      *)
(* random_entry and update_timeout calls that are recorded with what they  *)
(* returned                                                                *)
(***************************************************************************)
Made(call, result) == [call |-> call, result |-> result]

\* Database::open that keeps the generator of the Database before it
DetOpen_keeps ==
    LET db == Database_open(file, clock) IN
    /\ opens < MaxOpens
    /\ opens' = opens + 1
    /\ usable' = db.usable
    /\ unusable' = db.unusable
    /\ rng' = rng
    /\ nrand' = 0
    /\ loaded' = Decoded(file, clock)
    /\ pc' = "open"
    /\ last' = Call("open", <<>>, "Ok", <<>>)
    /\ prev' = trace
    /\ trace' = <<>>
    /\ UNCHANGED <<file, clock, faults, input, app>>

\* Database::open returns Ok; the calls made on the Database before it are
\* kept in prev
DetOpen ==
    LET db == Database_open(file, clock) IN
    /\ opens < MaxOpens
    /\ opens' = opens + 1
    /\ usable' = db.usable
    /\ unusable' = db.unusable
    /\ rng' = Rng_new
    /\ nrand' = 0
    /\ loaded' = Decoded(file, clock)
    /\ pc' = "open"
    /\ last' = Call("open", <<>>, "Ok", <<>>)
    /\ prev' = trace
    /\ trace' = <<>>
    /\ UNCHANGED <<file, clock, faults, input, app>>

\* Database::random_entry, recorded
DetRandomEntry ==
    /\ pc = "open"
    /\ Len(trace) < MaxCalls
    /\ LET r == Database_random_entry(usable, rng) IN
       /\ last' = Call("random_entry", <<>>, IF r = <<>> THEN "None" ELSE "Some", r)
       /\ rng' = IF usable = <<>> THEN rng ELSE Rng_rand(rng)
       /\ nrand' = IF usable = <<>> THEN nrand ELSE nrand + 1
       /\ trace' = Append(trace, Made(<<"random_entry">>, r))
    /\ UNCHANGED <<file, clock, faults, opens, pc, usable, unusable, loaded, input,
                   app, prev>>

\* Database::update_timeout(index, next), recorded
DetUpdateTimeout(index, next) ==
    /\ pc = "open"
    /\ Len(trace) < MaxCalls
    /\ LET r == Database_update_timeout(usable, unusable, index, next, clock) IN
       /\ usable' = r.usable
       /\ unusable' = r.unusable
       /\ pc' = IF r.panic THEN "panicked" ELSE "open"
       /\ last' = Call("update_timeout", <<index, next>>,
                       IF r.panic THEN "panic" ELSE "unit",
                       IF last.op = "random_entry" THEN last.picked ELSE <<>>)
       /\ trace' = Append(trace, Made(<<"update_timeout", index, next>>,
                                      IF r.panic THEN <<"panic">> ELSE <<>>))
    /\ UNCHANGED <<file, clock, faults, opens, rng, nrand, loaded, input, app, prev>>

DetNext ==
    \/ DetOpen
    \/ DetRandomEntry
    \/ \E index \in 0..Len(usable), next \in BOOLEAN : DetUpdateTimeout(index, next)

DetSpec == Init /\ [][DetNext]_vars

(***************************************************************************)
(* The application (main.rs): App::new and App::update, one action for     *)
(* each event with everything its handler calls.  trace holds the calls    *)
(* the last handler made, last the event it handled.                       *)
(***************************************************************************)
\* the fields of App set from the result of random_entry (main.rs:72-90,
\* 130-137); the translation is hidden after every such call
App_show(entry) ==
    [current_entry  |-> entry,
     word           |-> IF entry = <<>> THEN <<>> ELSE entry[1].word,
     tr_word        |-> IF entry = <<>> THEN <<>> ELSE entry[1].tr_word,
     tr_word_hidden |-> TRUE]

\* App::new: Database::open returned Ok, then the first random_entry
AppNew ==
    LET db == Database_open(file, clock)
        r  == Database_random_entry(db.usable, Rng_new)
    IN  /\ pc # "open"
        /\ opens < MaxOpens
        /\ opens' = opens + 1
        /\ usable' = db.usable
        /\ unusable' = db.unusable
        /\ rng' = IF db.usable = <<>> THEN Rng_new ELSE Rng_rand(Rng_new)
        /\ nrand' = IF db.usable = <<>> THEN 0 ELSE 1
        /\ loaded' = Decoded(file, clock)
        /\ pc' = "open"
        /\ app' = App_show(r)
        /\ last' = Call("new", <<>>, "Ok", r)
        /\ trace' = <<Made(<<"open">>, <<"Ok">>), Made(<<"random_entry">>, r)>>
        /\ UNCHANGED <<file, clock, faults, input, prev>>

\* App::new: Database::open returned Err, the error is shown and the
\* process exits (main.rs:65-68)
AppNewErr ==
    /\ pc # "open"
    /\ opens < MaxOpens
    /\ faults < MaxFaults
    /\ opens' = opens + 1
    /\ faults' = faults + 1
    /\ usable' = <<>>
    /\ unusable' = <<>>
    /\ rng' = Rng_new
    /\ nrand' = 0
    /\ loaded' = <<>>
    /\ pc' = "exited"
    /\ app' = NoApp
    /\ last' = Call("new", <<>>, "Err", <<>>)
    /\ trace' = <<Made(<<"open">>, <<"Err">>)>>
    /\ UNCHANGED <<file, clock, input, prev>>

\* App::update(CorrectPressed) for next = TRUE, (IncorrectPressed) for
\* FALSE: update_timeout with the index of current_entry, if there is one;
\* write_db, which writes `written` entries and returns Err when `err`;
\* random_entry.  A panic of update_timeout ends the process there.
Pressed(event, next, err, written) ==
    LET cur == app.current_entry
        r   == IF cur # <<>>
               THEN Database_update_timeout(usable, unusable, cur[2], next, clock)
               ELSE [usable |-> usable, unusable |-> unusable, panic |-> FALSE]
        advance == IF cur # <<>>
                   THEN <<Made(<<"update_timeout", cur[2], next>>,
                               IF r.panic THEN <<"panic">> ELSE <<>>)>>
                   ELSE <<>>
        pick == Database_random_entry(r.usable, rng)
    IN  /\ pc = "open"
        /\ usable' = r.usable
        /\ unusable' = r.unusable
        /\ IF r.panic
           THEN /\ ~err
                /\ pc' = "panicked"
                /\ trace' = advance
                /\ last' = Call(event, <<>>, "panic", <<>>)
                /\ UNCHANGED <<file, faults, rng, nrand, app>>
           ELSE /\ err => faults < MaxFaults /\ written < Len(r.usable) + Len(r.unusable)
                /\ ~err => written = Len(r.usable) + Len(r.unusable)
                /\ faults' = IF err THEN faults + 1 ELSE faults
                /\ file' = Database_write_db(file, r.usable, r.unusable, written)
                /\ rng' = IF r.usable = <<>> THEN rng ELSE Rng_rand(rng)
                /\ nrand' = IF r.usable = <<>> THEN nrand ELSE nrand + 1
                /\ app' = App_show(pick)
                /\ pc' = "open"
                /\ trace' = advance
                            \o <<Made(<<"write_db">>, IF err THEN <<"Err">> ELSE <<"Ok">>),
                                 Made(<<"random_entry">>, pick)>>
                /\ last' = Call(event, <<>>, "done", pick)
        /\ UNCHANGED <<clock, opens, loaded, input, prev>>

CorrectPressed ==
    \E written \in 0..(Len(usable) + Len(unusable)) :
        Pressed("CorrectPressed", TRUE, FALSE, written)

CorrectPressedWriteErr ==
    \E written \in 0..(Len(usable) + Len(unusable)) :
        Pressed("CorrectPressed", TRUE, TRUE, written)

IncorrectPressed ==
    \E written \in 0..(Len(usable) + Len(unusable)) :
        Pressed("IncorrectPressed", FALSE, FALSE, written)

IncorrectPressedWriteErr ==
    \E written \in 0..(Len(usable) + Len(unusable)) :
        Pressed("IncorrectPressed", FALSE, TRUE, written)

\* App::update(WordPressed)
WordPressed ==
    /\ pc = "open"
    /\ app' = [app EXCEPT !.tr_word_hidden = ~app.tr_word_hidden]
    /\ trace' = <<>>
    /\ last' = Call("WordPressed", <<>>, "done", <<>>)
    /\ UNCHANGED <<file, clock, faults, opens, pc, usable, unusable, rng, nrand,
                   loaded, input, prev>>

\* the window is closed: the process ends
AppClose ==
    /\ pc = "open"
    /\ pc' = "exited"
    /\ trace' = <<>>
    /\ last' = Call("close", <<>>, "done", <<>>)
    /\ UNCHANGED <<file, clock, faults, opens, usable, unusable, rng, nrand,
                   loaded, input, app, prev>>

AppNext ==
    \/ AppNew
    \/ AppNewErr
    \/ CorrectPressed
    \/ CorrectPressedWriteErr
    \/ IncorrectPressed
    \/ IncorrectPressedWriteErr
    \/ WordPressed
    \/ AppClose
    \/ \E d \in ClockSteps : Tick(d)

AppSpec == Init /\ [][AppNext]_vars

\* the runs on the parser's inputs
ParseInit ==
    /\ file \in ParseInputFiles
    /\ clock = 0
    /\ faults = 0
    /\ opens = 0
    /\ pc = "no_db"
    /\ usable = <<>>
    /\ unusable = <<>>
    /\ rng = Rng_new
    /\ nrand = 0
    /\ loaded = <<>>
    /\ input = file
    /\ last = Call("none", <<>>, "none", <<>>)
    /\ app = NoApp
    /\ trace = <<>>
    /\ prev = <<>>

ParseSpec == ParseInit /\ [][Next]_vars

(***************************************************************************)
(* Vocabulary of the properties                                            *)
(***************************************************************************)
\* the entries held in memory: usable first, then unusable
Store == usable \o unusable

\* the four fields db_repr writes
Stored(e) == <<e.word, e.tr_word, e.cur_iter, e.timeout>>

\* what never changes in an entry
Pair(e) == <<e.word, e.tr_word>>

Count(sq, v) == Cardinality({n \in DOMAIN sq : sq[n] = v})

\* two sequences hold the same values the same number of times
SameBag(sq1, sq2) ==
    /\ Len(sq1) = Len(sq2)
    /\ \A n \in DOMAIN sq1 : Count(sq1, sq1[n]) = Count(sq2, sq1[n])

\* every value of sq1 is in sq2 at least as many times
Within(sq1, sq2) ==
    \A n \in DOMAIN sq1 : Count(sq1, sq1[n]) <= Count(sq2, sq1[n])

Image(Op(_), sq) == [n \in DOMAIN sq |-> Op(sq[n])]

ValidIter(e) == e.cur_iter \in 0..(Len(TIMEOUT_DELAYS) - 1)

\* the last call was a write_db that returned Ok, and nothing was called since
Persisted == pc = "open" /\ last.op = "write_db" /\ last.outcome = "Ok"

\* this step is a successful Database::open
OpenStep == last'.op = "open" /\ last'.outcome = "Ok" /\ opens' = opens + 1

\* this step is a Database::update_timeout that moved the entry at `index`
\* to the end of unusable
AdvanceStep(index) ==
    /\ pc = "open" /\ pc' = "open"
    /\ last'.op = "update_timeout"
    /\ index < Len(usable)
    /\ Len(unusable') = Len(unusable) + 1
    /\ Len(usable') = Len(usable) - 1
    /\ Pair(unusable'[Len(unusable')]) = Pair(usable[index + 1])

(***************************************************************************)
(* C1. Persist fidelity: when write_db returned Ok and the file is then    *)
(* opened again, the reloaded store holds the entries that were in memory  *)
(* at the write (the four stored fields of each, as a multiset).           *)
(* Stated as the claim states it; the code does not truncate the file.     *)
(***************************************************************************)
C1_PersistFidelity ==
    [][(Persisted /\ OpenStep) =>
          SameBag(Image(Stored, usable' \o unusable'), Image(Stored, Store))]_vars

(***************************************************************************)
(* C2. Full snapshot: after a write_db that returned Ok the file is        *)
(* exactly the encoded lines of the entries in memory, usable first, each  *)
(* ended by a newline, and nothing of the earlier content.                 *)
(* Stated as the claim states it; the code does not truncate the file.     *)
(***************************************************************************)
C2_FullSnapshot == Persisted => file = Encode(Store)

(***************************************************************************)
(* C3. Partition invariant: no usable entry is timed out, every unusable   *)
(* entry is, there are as many entries as lines decoded at load, and they  *)
(* are the decoded ones (by word and translation, as a multiset).          *)
(***************************************************************************)
C3_Partition ==
    /\ \A n \in DOMAIN usable : ~usable[n].timed_out
    /\ \A n \in DOMAIN unusable : unusable[n].timed_out
    /\ Len(usable) + Len(unusable) = Len(loaded)
    /\ SameBag(Image(Pair, Store), Image(Pair, loaded))

\* an advance moved one of two decoded entries, of a file with a dropped line
C3_Witness ==
    /\ pc = "open"
    /\ last.op = "update_timeout"
    /\ Len(usable) = 1 /\ Len(unusable) = 1
    /\ \A n \in DOMAIN loaded : ~loaded[n].timed_out
    /\ Len(Lines(file)) > Len(loaded)

(***************************************************************************)
(* C4. Iteration validity: cur_iter of every entry, in either vector, is   *)
(* an index of TIMEOUT_DELAYS (0..4).                                      *)
(* Stated as the claim states it; parse_from_line accepts any usize.       *)
(***************************************************************************)
C4_IterationValid == \A n \in DOMAIN Store : ValidIter(Store[n])

(***************************************************************************)
(* C5. No abort: no call panics, whatever the file holds.                  *)
(* Stated as the claim states it; update_timeout indexes TIMEOUT_DELAYS    *)
(* with the cur_iter parse_from_line accepted.                             *)
(***************************************************************************)
C5_NoAbort == pc # "panicked"

(***************************************************************************)
(* C6. Round trip: an entry parse_from_line returns for a line, written by *)
(* db_repr and parsed again at the same clock, is the same entry in all    *)
(* five fields.  The lines are those of every file the run reaches.        *)
(***************************************************************************)
C6_RoundTrip ==
    \A n \in DOMAIN Lines(file) :
        LET r == parse_from_line(Lines(file)[n], clock) IN
        r # <<>> => parse_from_line(db_repr(r[1]), clock) = r

\* open decoded a timed-out entry from a line db_repr would write otherwise
C6_Witness ==
    /\ last.op = "open" /\ last.outcome = "Ok"
    /\ \E n \in DOMAIN Lines(file) :
          LET r == parse_from_line(Lines(file)[n], clock) IN
          /\ r # <<>>
          /\ db_repr(r[1]) # Lines(file)[n]
          /\ r[1].timed_out
          /\ \E m \in DOMAIN unusable : unusable[m] = r[1]

(***************************************************************************)
(* C7. timed_out coherence, as the claim states it: whenever timed_out is  *)
(* computed, by open and by update_timeout, it equals timeout > now.       *)
(***************************************************************************)
C7_DueCoherence_Original ==
    [][/\ OpenStep =>
            \A n \in DOMAIN (usable' \o unusable') :
                LET e == (usable' \o unusable')[n] IN
                e.timed_out = (e.timeout > clock)
       /\ \A index \in 0..Len(usable) :
            AdvanceStep(index) =>
                LET e == unusable'[Len(unusable')] IN
                e.timed_out = (e.timeout > clock)]_vars

(***************************************************************************)
(* C7, amended. open sets timed_out to timeout > now.  update_timeout sets *)
(* timed_out to TRUE whatever the delay: with the new cur_iter in 1..4 the *)
(* timeout is after now, with the new cur_iter 0 the timeout is now, and   *)
(* timed_out is TRUE all the same.                                         *)
(***************************************************************************)
C7_DueCoherence ==
    [][/\ OpenStep =>
            \A n \in DOMAIN (usable' \o unusable') :
                LET e == (usable' \o unusable')[n] IN
                e.timed_out = (e.timeout > clock)
       /\ \A index \in 0..Len(usable) :
            AdvanceStep(index) =>
                LET e == unusable'[Len(unusable')] IN
                /\ e.timed_out
                /\ e.cur_iter # 0 => e.timeout > clock
                /\ e.cur_iter = 0 => e.timeout = clock]_vars

\* an advance on day 1 landed on index 0: timed out until now
C7_Witness ==
    /\ pc = "open"
    /\ last.op = "update_timeout"
    /\ clock = DAY
    /\ unusable # <<>>
    /\ LET e == unusable[Len(unusable)] IN
       e.cur_iter = 0 /\ e.timed_out /\ e.timeout = clock

(***************************************************************************)
(* C8. Clamping: update_timeout on a usable entry with cur_iter i in 0..4  *)
(* moves it with cur_iter i+1, or 4 when i = 4 (next), and i-1, or 0 when  *)
(* i = 0 (not next); and in a run started on a file whose lines all decode *)
(* to entries with cur_iter in 0..4, every entry of every process of the   *)
(* run has cur_iter in 0..4.                                               *)
(***************************************************************************)
Clamped(i, next) ==
    IF next THEN (IF i + 1 > 4 THEN 4 ELSE i + 1)
    ELSE (IF i - 1 < 0 THEN 0 ELSE i - 1)

CleanInput ==
    \A n \in DOMAIN Lines(input) :
        LET r == parse_from_line(Lines(input)[n], 0) IN
        r # <<>> /\ ValidIter(r[1])

C8_ClampStep ==
    \A index \in 0..(Len(usable) - 1), next \in BOOLEAN :
        (UpdateTimeout(index, next) /\ ValidIter(usable[index + 1])) =>
            /\ pc' = "open"
            /\ Len(unusable') = Len(unusable) + 1
            /\ Pair(unusable'[Len(unusable')]) = Pair(usable[index + 1])
            /\ unusable'[Len(unusable')].cur_iter
                   = Clamped(usable[index + 1].cur_iter, next)

C8_Clamping ==
    /\ [][C8_ClampStep]_vars
    /\ [](CleanInput => \A n \in DOMAIN Store : ValidIter(Store[n]))

\* the second process of a run moved an entry from 4 to 4 and one from 0 to 0
C8_Witness ==
    /\ CleanInput
    /\ opens = 2
    /\ pc = "open"
    /\ usable = <<>>
    /\ \E n \in DOMAIN unusable :
          /\ unusable[n].cur_iter = 4
          /\ unusable[n].timeout = clock + TIMEOUT_DELAYS[5] * DAY
    /\ \E n \in DOMAIN unusable :
          /\ unusable[n].cur_iter = 0
          /\ unusable[n].timed_out
          /\ unusable[n].timeout = clock
          /\ clock = DAY

(***************************************************************************)
(* C9. Due guard: until the next open, no call changes or removes an entry *)
(* that is in unusable: every entry of unusable is in it after the step,   *)
(* with the same five fields.                                              *)
(***************************************************************************)
C9_DueGuard ==
    [][opens' = opens => Within(unusable, unusable')]_vars

\* two entries decoded usable, both moved by update_timeout in one process
C9_Witness ==
    /\ pc = "open"
    /\ last.op = "update_timeout"
    /\ Len(loaded) = 2
    /\ \A n \in DOMAIN loaded : ~loaded[n].timed_out
    /\ usable = <<>>
    /\ Len(unusable) = 2

(***************************************************************************)
(* C10. random_entry returns None exactly when usable is empty; otherwise  *)
(* an index of usable and the entry at it, which is not timed out.  It     *)
(* changes neither vector, nor the file.                                   *)
(***************************************************************************)
C10_PickState ==
    last.op = "random_entry" =>
        /\ (last.picked = <<>>) <=> (usable = <<>>)
        /\ last.picked # <<>> =>
              LET e == last.picked[1]
                  h == last.picked[2]
              IN  /\ h \in 0..(Len(usable) - 1)
                  /\ usable[h + 1] = e
                  /\ ~e.timed_out

C10_PickFrame ==
    (last'.op = "random_entry" /\ clock' = clock) =>
        UNCHANGED <<usable, unusable, file, pc, loaded>>

C10_PickDue == []C10_PickState /\ [][C10_PickFrame]_vars

\* random_entry returned the second of two usable entries
C10_Witness ==
    /\ last.op = "random_entry"
    /\ Len(usable) = 2
    /\ last.picked # <<>>
    /\ last.picked[2] = 1

(***************************************************************************)
(* C11. Out-of-range handle: update_timeout(index, next) with index >=     *)
(* usable.len(), also on an empty usable, returns and leaves usable,       *)
(* unusable (so every field of every entry), the generator and the file    *)
(* as they were.                                                           *)
(***************************************************************************)
C11_StaleStep ==
    \A index \in Len(usable)..(Len(usable) + 1), next \in BOOLEAN :
        UpdateTimeout(index, next) =>
            /\ pc' = "open"
            /\ last'.outcome = "unit"
            /\ UNCHANGED <<usable, unusable, rng, nrand, file>>

C11_StaleHandle == [][C11_StaleStep]_vars

\* update_timeout was called with the index one past the end of a usable
\* of two entries, and with index 0 on an empty usable
C11_Witness ==
    /\ pc = "open"
    /\ last.op = "update_timeout"
    /\ last.args[1] >= Len(usable)
    /\ \/ Len(usable) = 2 /\ unusable = <<>>
       \/ usable = <<>> /\ Len(unusable) = 2 /\ last.args[1] = 0

(***************************************************************************)
(* C12. timeout never decreases: the clock only moves forward, and         *)
(* (a) update_timeout(index, true) leaves the entry with a timeout >= the  *)
(*     one it had, in every process of the run;                            *)
(* (b) an open that follows a write_db that returned Ok holds every entry  *)
(*     that was in memory, with the timeout it had;                        *)
(* (c) random_entry, write_db and the passing of time change no entry.     *)
(***************************************************************************)
C12_ForwardStep ==
    \A index \in 0..(Len(usable) - 1) :
        UpdateTimeout(index, TRUE) =>
            LET old == usable[index + 1] IN
            IF pc' = "panicked"
            THEN usable'[index + 1].timeout >= old.timeout
            ELSE /\ Pair(unusable'[Len(unusable')]) = Pair(old)
                 /\ unusable'[Len(unusable')].timeout >= old.timeout

C12_ReloadStep ==
    (Persisted /\ OpenStep) =>
        Within(Image(Stored, Store), Image(Stored, usable' \o unusable'))

C12_OtherStep ==
    (last'.op \in {"random_entry", "write_db"} \/ clock' # clock) =>
        UNCHANGED <<usable, unusable>>

C12_Monotonic ==
    [][clock' >= clock /\ C12_ForwardStep /\ C12_ReloadStep /\ C12_OtherStep]_vars

\* "a;; b" went forward on day 0, was written, read again on day 1 and went
\* forward again: timeout 86400, then 86400 + 7 days
C12_Witness ==
    /\ opens = 2
    /\ pc = "open"
    /\ last.op = "update_timeout" /\ last.args[2]
    /\ \E n \in DOMAIN unusable :
          /\ unusable[n].word = W("a")
          /\ unusable[n].cur_iter = 2
          /\ unusable[n].timeout = DAY + TIMEOUT_DELAYS[3] * DAY
    /\ \E n \in DOMAIN loaded :
          /\ loaded[n].word = W("a")
          /\ loaded[n].cur_iter = 1
          /\ loaded[n].timeout = DAY

(***************************************************************************)
(* C13. Forgiving parse: parse_from_line returns an entry exactly for a    *)
(* line of 2 elements, and for a line of 4 elements whose third and fourth *)
(* are numerals of non-negative integers.  2 elements give cur_iter 0,     *)
(* timeout 0, timed_out FALSE; 4 elements give the two numbers and         *)
(* timed_out exactly when timeout > now.  open holds one entry for each    *)
(* such line of the file and none for any other line, and fails only on an *)
(* I/O error.  A numeral is an optional "+" and one or more digits, of a   *)
(* value up to u64::MAX.                                                   *)
(***************************************************************************)
C13_Digits(s) == IF s # <<>> /\ s[1] = "+" THEN Tail(s) ELSE s

C13_Numeral(s) ==
    /\ C13_Digits(s) # <<>>
    /\ \A n \in DOMAIN C13_Digits(s) : C13_Digits(s)[n] \in {DigitChars[d] : d \in 1..10}
    /\ FitsU64([n \in DOMAIN C13_Digits(s) |-> DigitValue(C13_Digits(s)[n])])

RECURSIVE C13_Value(_)
C13_Value(ds) ==
    IF ds = <<>> THEN 0
    ELSE 10 * C13_Value(SubSeq(ds, 1, Len(ds) - 1)) + DigitValue(ds[Len(ds)])

C13_Expected(line, now) ==
    LET f == Split(line, DELIMITER) IN
    IF Len(f) = 2 THEN <<Entry(f[1], f[2], 0, 0, FALSE)>>
    ELSE IF Len(f) = 4 /\ C13_Numeral(f[3]) /\ C13_Numeral(f[4])
    THEN <<Entry(f[1], f[2], C13_Value(C13_Digits(f[3])), C13_Value(C13_Digits(f[4])),
                 C13_Value(C13_Digits(f[4])) > now)>>
    ELSE <<>>

RECURSIVE C13_ExpectedAll(_, _)
C13_ExpectedAll(ls, now) ==
    IF ls = <<>> THEN <<>>
    ELSE C13_Expected(Head(ls), now) \o C13_ExpectedAll(Tail(ls), now)

C13_ParseState ==
    /\ \A n \in DOMAIN Lines(file) :
          parse_from_line(Lines(file)[n], clock) = C13_Expected(Lines(file)[n], clock)
    /\ (last.op = "open" /\ last.outcome = "Err") => faults > 0

C13_LoadStep ==
    OpenStep =>
        /\ pc' = "open"
        /\ SameBag(usable' \o unusable', C13_ExpectedAll(Lines(file), clock))

C14_SameCalls(n) == \A m \in 1..n : trace[m].call = prev[m].call

C14_Determinism ==
    /\ file = input /\ clock = 0
    /\ opens = 2 =>
          \A n \in 1..Len(trace) :
              (n <= Len(prev) /\ C14_SameCalls(n)) => trace[n].result = prev[n].result

\* both Databases were asked random_entry, update_timeout(the index
\* returned, true), random_entry, and the two random_entry calls returned
\* different entries
C14_Witness ==
    /\ opens = 2
    /\ Len(trace) = 3 /\ Len(prev) = 3
    /\ C14_SameCalls(3)
    /\ trace[1].call = <<"random_entry">>
    /\ trace[1].result # <<>> /\ trace[3].result # <<>>
    /\ trace[2].call = <<"update_timeout", trace[1].result[2], TRUE>>
    /\ trace[3].call = <<"random_entry">>
    /\ trace[1].result[1] # trace[3].result[1]

(***************************************************************************)
(* C15. Review cycle of the application, as the claim states it:           *)
(* current_entry, when it is Some, is the entry at its index in usable and *)
(* the one displayed; every CorrectPressed / IncorrectPressed event calls  *)
(* update_timeout with that index (true for Correct, false for Incorrect)  *)
(* when there is a current_entry, and the entry moved to unusable is the   *)
(* one that was displayed; then write_db; then random_entry, whose result  *)
(* is the new current_entry.  When write_db returns Err the advance is     *)
(* kept in memory and random_entry is still called.  WordPressed calls     *)
(* nothing.                                                                *)
(* update_timeout panics on an entry with cur_iter >= 5 (C5) and the       *)
(* handler then calls neither write_db nor random_entry.                   *)
(***************************************************************************)
C15_Displayed ==
    (pc = "open" /\ app.current_entry # <<>>) =>
        LET e == app.current_entry[1]
            h == app.current_entry[2]
        IN  /\ h < Len(usable)
            /\ usable[h + 1] = e
            /\ app.word = e.word /\ app.tr_word = e.tr_word

C15_Outcome == last'.op \in {"CorrectPressed", "IncorrectPressed"} /\ clock' = clock

C15_Cycle ==
    LET cur  == app.current_entry
        next == last'.op = "CorrectPressed"
        n    == Len(trace')
    IN  /\ pc' = "open"
        /\ n = (IF cur = <<>> THEN 2 ELSE 3)
        /\ cur # <<>> =>
              /\ trace'[1] = Made(<<"update_timeout", cur[2], next>>, <<>>)
              /\ Len(usable') = Len(usable) - 1
              /\ Len(unusable') = Len(unusable) + 1
              /\ Pair(unusable'[Len(unusable')]) = <<app.word, app.tr_word>>
              /\ unusable'[Len(unusable')].timed_out
        /\ cur = <<>> => UNCHANGED <<usable, unusable>>
        /\ trace'[n - 1].call = <<"write_db">>
        /\ trace'[n - 1].result \in {<<"Ok">>, <<"Err">>}
        /\ trace'[n - 1].result = <<"Ok">> =>
              file' = Overwrite(file, Encode(usable' \o unusable'))
        /\ trace'[n].call = <<"random_entry">>
        /\ trace'[n].result = app'.current_entry
        /\ (app'.current_entry = <<>>) <=> (usable' = <<>>)

C15_WordStep ==
    (last'.op = "WordPressed" /\ clock' = clock) =>
        /\ trace' = <<>>
        /\ UNCHANGED <<usable, unusable, rng, nrand, file, pc>>
        /\ app'.current_entry = app.current_entry

C15_ReviewCycle ==
    /\ []C15_Displayed
    /\ [][(C15_Outcome => C15_Cycle) /\ C15_WordStep]_vars

\* C15 for the events that do not come upon an entry with cur_iter >= 5
C15_OnValid == app.current_entry # <<>> => ValidIter(app.current_entry[1])

C15_ReviewCycle_Valid ==
    /\ []C15_Displayed
    /\ [][((C15_Outcome /\ C15_OnValid) => C15_Cycle) /\ C15_WordStep]_vars

\* an event whose write_db returned Err moved the displayed entry and
\* picked the next one
C15_Witness ==
    /\ pc = "open"
    /\ last.op = "IncorrectPressed"
    /\ Len(trace) = 3
    /\ trace[2] = Made(<<"write_db">>, <<"Err">>)
    /\ trace[3].result # <<>>
    /\ Len(unusable) = 1

(***************************************************************************)
(* C16. Timeout computation, as the claim states it: update_timeout(index, *)
(* next) with index < usable.len() moves the entry with                    *)
(* timeout = now + delayTable[j] * 86400, j its cur_iter after the step up *)
(* or down and delayTable = [0, 1, 7, 14, 30]; word and tr_word stay.      *)
(* update_timeout panics on an entry with cur_iter >= 5 (C5) and sets no   *)
(* timeout then.                                                           *)
(***************************************************************************)
C16_DelayTable == <<0, 1, 7, 14, 30>>

C16_Computed(index, next) ==
    LET old == usable[index + 1]
        new == unusable'[Len(unusable')]
        j   == IF next THEN (IF old.cur_iter = 4 THEN 4 ELSE old.cur_iter + 1)
               ELSE (IF old.cur_iter = 0 THEN 0 ELSE old.cur_iter - 1)
    IN  /\ pc' = "open"
        /\ Len(unusable') = Len(unusable) + 1
        /\ Pair(new) = Pair(old)
        /\ new.cur_iter = j
        /\ j + 1 \in DOMAIN C16_DelayTable
        /\ new.timeout = clock + C16_DelayTable[j + 1] * 86400

C16_Timeout ==
    [][\A index \in 0..(Len(usable) - 1), next \in BOOLEAN :
          UpdateTimeout(index, next) => C16_Computed(index, next)]_vars

\* C16 for the entries with cur_iter in 0..4
C16_Timeout_Valid ==
    [][\A index \in 0..(Len(usable) - 1), next \in BOOLEAN :
          (UpdateTimeout(index, next) /\ ValidIter(usable[index + 1]))
              => C16_Computed(index, next)]_vars

\* on day 1 an entry went back from cur_iter 1 to 0 (timeout = now) and
\* another stayed on 4 (timeout = now + 30 days)
C16_Witness ==
    /\ pc = "open"
    /\ clock = DAY
    /\ last.op = "update_timeout"
    /\ \E n \in DOMAIN unusable :
          unusable[n].cur_iter = 0 /\ unusable[n].timeout = DAY
          /\ \E m \in DOMAIN loaded :
                Pair(loaded[m]) = Pair(unusable[n]) /\ loaded[m].cur_iter = 1
    /\ \E n \in DOMAIN unusable :
          unusable[n].cur_iter = 4 /\ unusable[n].timeout = DAY + 30 * 86400

(***************************************************************************)
(* The application with its window left open: every event of AppNext but   *)
(* the close, and an outcome button is pressed again and again             *)
(***************************************************************************)
AppOutcome ==
    \/ CorrectPressed
    \/ CorrectPressedWriteErr
    \/ IncorrectPressed
    \/ IncorrectPressedWriteErr

AppLoopNext ==
    \/ AppNew
    \/ AppNewErr
    \/ AppOutcome
    \/ WordPressed
    \/ \E d \in ClockSteps : Tick(d)

AppFairSpec == Init /\ [][AppLoopNext]_vars /\ WF_vars(AppOutcome)

(***************************************************************************)
(* Runs of one Database on which an index returned by random_entry is      *)
(* passed to update_timeout more than once; the calls are recorded in      *)
(* trace.  The generator returns the last index on its first two calls,    *)
(* so the runs go on to a third random_entry.                              *)
(***************************************************************************)
ReuseOpen ==
    LET db == Database_open(file, clock) IN
    /\ pc = "no_db"
    /\ opens < MaxOpens
    /\ opens' = opens + 1
    /\ usable' = db.usable
    /\ unusable' = db.unusable
    /\ rng' = Rng_new
    /\ nrand' = 0
    /\ loaded' = Decoded(file, clock)
    /\ pc' = "open"
    /\ last' = Call("open", <<>>, "Ok", <<>>)
    /\ trace' = <<>>
    /\ UNCHANGED <<file, clock, faults, input, app, prev>>

ReuseRandomEntry ==
    /\ pc = "open"
    /\ Len(trace) < MaxReuse
    /\ usable = <<>> \/ nrand < MaxPicks
    /\ LET r == Database_random_entry(usable, rng) IN
       /\ last' = Call("random_entry", <<>>, IF r = <<>> THEN "None" ELSE "Some", r)
       /\ rng' = IF usable = <<>> THEN rng ELSE Rng_rand(rng)
       /\ nrand' = IF usable = <<>> THEN nrand ELSE nrand + 1
       /\ trace' = Append(trace, Made(<<"random_entry">>, r))
    /\ UNCHANGED <<file, clock, faults, opens, pc, usable, unusable, loaded, input,
                   app, prev>>

ReuseUpdateTimeout(index, next) ==
    /\ pc = "open"
    /\ Len(trace) < MaxReuse
    /\ LET r == Database_update_timeout(usable, unusable, index, next, clock) IN
       /\ usable' = r.usable
       /\ unusable' = r.unusable
       /\ pc' = IF r.panic THEN "panicked" ELSE "open"
       /\ last' = Call("update_timeout", <<index, next>>,
                       IF r.panic THEN "panic" ELSE "unit",
                       IF last.op = "random_entry" THEN last.picked ELSE <<>>)
       /\ trace' = Append(trace, Made(<<"update_timeout", index, next>>,
                                      IF r.panic THEN <<"panic">> ELSE <<>>))
    /\ UNCHANGED <<file, clock, faults, opens, rng, nrand, loaded, input, app, prev>>

ReuseNext ==
    \/ ReuseOpen
    \/ ReuseRandomEntry
    \/ \E index \in 0..Len(usable), next \in BOOLEAN : ReuseUpdateTimeout(index, next)

ReuseSpec == Init /\ [][ReuseNext]_vars

(***************************************************************************)
(* Runs in which the process is killed                                     *)
(***************************************************************************)
\* the process ends inside Database::write_db after the seek and the
\* write_all of k entries (db.rs:74-79), or outside it (k = 0: nothing
\* was written); the Database is gone with it
Crash(k) ==
    /\ pc = "open"
    /\ file' = Database_write_db(file, usable, unusable, k)
    /\ pc' = "no_db"
    /\ usable' = <<>>
    /\ unusable' = <<>>
    /\ rng' = Rng_new
    /\ nrand' = 0
    /\ loaded' = <<>>
    /\ last' = Call("crash", <<k>>, "none", <<>>)
    /\ UNCHANGED <<clock, faults, opens, input, others>>

CrashNext ==
    \/ Next
    \/ \E k \in 0..(Len(usable) + Len(unusable)) : Crash(k)

CrashSpec == Init /\ [][CrashNext]_vars

(***************************************************************************)
(* C17. Reviewed at most once between two opens, as the claim states it:   *)
(* update_timeout(index, next) with index < usable.len() takes exactly the *)
(* entry at index out of usable and appends it to unusable with timed_out  *)
(* TRUE, also when the delay is 0 days; random_entry never returns an      *)
(* entry of unusable; an entry of unusable stays in it until the next      *)
(* open; so of the entries that were usable at the open, each is moved at  *)
(* most once.                                                              *)
(* update_timeout panics on an entry with cur_iter >= 5 (C5) and moves     *)
(* nothing then.                                                           *)
(***************************************************************************)
C17_Without(sq, k) == SubSeq(sq, 1, k - 1) \o SubSeq(sq, k + 1, Len(sq))

C17_Moved(index) ==
    /\ pc' = "open"
    /\ Len(unusable') = Len(unusable) + 1
    /\ SubSeq(unusable', 1, Len(unusable)) = unusable
    /\ Pair(unusable'[Len(unusable')]) = Pair(usable[index + 1])
    /\ unusable'[Len(unusable')].timed_out
    /\ SameBag(usable', C17_Without(usable, index + 1))

C17_Stays == opens' = opens => SubSeq(unusable', 1, Len(unusable)) = unusable

C17_Picked ==
    (last.op = "random_entry" /\ last.picked # <<>>) =>
        /\ ~last.picked[1].timed_out
        /\ \A n \in DOMAIN unusable : unusable[n] # last.picked[1]

\* the entries update_timeout moved since the open are, each counted as
\* often as it occurs, among those that were usable at the open
C17_Once ==
    LET due == SelectSeq(loaded, LAMBDA e : e.timed_out)
        new == SelectSeq(loaded, LAMBDA e : ~e.timed_out)
    IN  pc = "open" =>
          /\ SubSeq(unusable, 1, Len(due)) = due
          /\ Within(Image(Pair, SubSeq(unusable, Len(due) + 1, Len(unusable))),
                    Image(Pair, new))

C17_OncePerSession ==
    /\ [](C17_Picked /\ C17_Once)
    /\ [][/\ C17_Stays
           /\ \A index \in 0..(Len(usable) - 1), next \in BOOLEAN :
                 UpdateTimeout(index, next) => C17_Moved(index)]_vars

\* C17 for the entries with cur_iter in 0..4
C17_OncePerSession_Valid ==
    /\ [](C17_Picked /\ C17_Once)
    /\ [][/\ C17_Stays
           /\ \A index \in 0..(Len(usable) - 1), next \in BOOLEAN :
                 (UpdateTimeout(index, next) /\ ValidIter(usable[index + 1]))
                     => C17_Moved(index)]_vars

\* an entry went from cur_iter 0 to 0 at clock 0 (a delay of 0 days) and is
\* in unusable; random_entry then returned the other entry
C17_Witness ==
    /\ pc = "open"
    /\ clock = 0
    /\ last.op = "random_entry" /\ last.picked # <<>>
    /\ Len(unusable) = 1
    /\ unusable[1].cur_iter = 0 /\ unusable[1].timeout = clock /\ unusable[1].timed_out
    /\ \A n \in DOMAIN loaded : ~loaded[n].timed_out

(***************************************************************************)
(* C18. No partial-write corruption: open, random_entry and update_timeout *)
(* leave the file as it is; and when the process ends after the write of   *)
(* any number of entries of write_db, the file is either what it was       *)
(* before that write_db or the complete new content (all the entries       *)
(* written), never a mixture of the two.                                   *)
(* write_db writes the entries one by one over the old content: ended      *)
(* after k of them, the file holds k new entries followed by what is left  *)
(* of the old content.                                                     *)
(***************************************************************************)
C18_ReadOnly ==
    (\/ Open
     \/ RandomEntry
     \/ \E index \in 0..Len(usable), next \in BOOLEAN : UpdateTimeout(index, next))
        => file' = file

C18_Complete ==
    {Encode(usable \o unusable),
     Database_write_db(file, usable, unusable, Len(usable) + Len(unusable))}

C18_CrashStep ==
    \A k \in 0..(Len(usable) + Len(unusable)) :
        Crash(k) => (file' = file \/ file' \in C18_Complete)

C18_NoPartialWrite == [][C18_ReadOnly /\ C18_CrashStep]_vars

\* the half of C18 about open, random_entry and update_timeout
C18_NoPartialWrite_ReadOnly == [][C18_ReadOnly]_vars

(***************************************************************************)
(* C19. Reused index: random_entry returned index, update_timeout(index,   *)
(* d) was called on it, and update_timeout(index, d') is called again with *)
(* no random_entry between.  The entries of unusable, the one of the first *)
(* call among them, stay as they are.  When index is no position of usable *)
(* any more (index >= usable.len(): the first call took the last           *)
(* position), the second call changes nothing.  When index is still a      *)
(* position of usable, the second call acts on the entry that swap_remove  *)
(* put there: usable changes, and unless the call panics that entry is     *)
(* moved to unusable with timed_out TRUE.                                  *)
(***************************************************************************)
\* the last two calls recorded: random_entry returning index, then
\* update_timeout on it
C19_Reused(index) ==
    LET n == Len(trace) IN
    /\ n >= 2
    /\ trace[n - 1].call = <<"random_entry">>
    /\ trace[n - 1].result # <<>>
    /\ trace[n - 1].result[2] = index
    /\ trace[n].call[1] = "update_timeout"
    /\ trace[n].call[2] = index

C19_SecondStep(index) ==
    /\ SubSeq(unusable', 1, Len(unusable)) = unusable
    /\ index >= Len(usable) => UNCHANGED <<usable, unusable>>
    /\ index < Len(usable) =>
          /\ usable' # usable
          /\ pc' = "open" =>
                /\ Len(usable') = Len(usable) - 1
                /\ Len(unusable') = Len(unusable) + 1
                /\ Pair(unusable'[Len(unusable')]) = Pair(usable[index + 1])
                /\ unusable'[Len(unusable')].timed_out

C19_ReusedHandle ==
    [][\A index \in 0..Len(usable), next \in BOOLEAN :
          (C19_Reused(index) /\ ReuseUpdateTimeout(index, next))
              => C19_SecondStep(index)]_vars

\* C19 as the claim states it: the second call changes no entry and moves
\* none, whatever the size of usable
C19_ReusedHandle_Original ==
    [][\A index \in 0..Len(usable), next \in BOOLEAN :
          (C19_Reused(index) /\ ReuseUpdateTimeout(index, next))
              => UNCHANGED <<usable, unusable>>]_vars

\* two entries were usable; random_entry returned index 0, update_timeout
\* was called on 0 twice, and both entries are in unusable
C19_Witness ==
    LET n == Len(trace) IN
    /\ pc = "open"
    /\ n >= 3
    /\ trace[n - 2].call = <<"random_entry">>
    /\ trace[n - 2].result # <<>>
    /\ trace[n - 2].result[2] = 0
    /\ trace[n - 1].call[1] = "update_timeout" /\ trace[n - 1].call[2] = 0
    /\ trace[n].call[1] = "update_timeout" /\ trace[n].call[2] = 0
    /\ Len(loaded) = 2
    /\ usable = <<>>
    /\ Len(unusable) = 2
    /\ Pair(unusable[1]) = Pair(trace[n - 2].result[1])

(***************************************************************************)
(* C20. Session exhaustion of the application, as the claim states it:     *)
(* an outcome event (Correct or Incorrect) with a current entry takes 1    *)
(* from usable.len() and adds 1 to unusable.len(); only App::new adds to   *)
(* usable; so with N entries usable at App::new, usable.len() is N less    *)
(* the entries moved, current_entry is None exactly when usable is empty,  *)
(* word and tr_word are empty then, and an outcome event without a current *)
(* entry changes no entry.  With an outcome button pressed again and       *)
(* again, the running application reaches that state.                      *)
(* update_timeout panics on an entry with cur_iter >= 5 (C5): that event   *)
(* moves nothing and the application never reaches the state.              *)
(***************************************************************************)
C20_Count ==
    LET due == SelectSeq(loaded, LAMBDA e : e.timed_out)
        new == SelectSeq(loaded, LAMBDA e : ~e.timed_out)
    IN  pc = "open" =>
          /\ Len(unusable) >= Len(due)
          /\ Len(usable) = Len(new) - (Len(unusable) - Len(due))

C20_Shown ==
    pc = "open" =>
        /\ (app.current_entry = <<>>) <=> (usable = <<>>)
        /\ app.current_entry = <<>> => (app.word = <<>> /\ app.tr_word = <<>>)

C20_Exhausted ==
    /\ pc = "open"
    /\ usable = <<>>
    /\ app.current_entry = <<>>
    /\ app.word = <<>> /\ app.tr_word = <<>>

C20_Moves ==
    /\ Len(usable') = Len(usable) - 1
    /\ Len(unusable') = Len(unusable) + 1

C20_Step ==
    /\ (AppOutcome /\ app.current_entry # <<>>) => C20_Moves
    /\ (AppOutcome /\ app.current_entry = <<>>) => UNCHANGED <<usable, unusable>>
    /\ AppNew \/ Len(usable') <= Len(usable)

C20_Exhaustion ==
    /\ [](C20_Count /\ C20_Shown)
    /\ [][C20_Step]_vars
    /\ (pc = "open") ~> C20_Exhausted

\* C20 for the entries with cur_iter in 0..4
C20_AllValid == \A n \in DOMAIN usable : ValidIter(usable[n])

C20_Step_Valid ==
    /\ (AppOutcome /\ app.current_entry # <<>> /\ C20_AllValid) => C20_Moves
    /\ (AppOutcome /\ app.current_entry = <<>>) => UNCHANGED <<usable, unusable>>
    /\ AppNew \/ Len(usable') <= Len(usable)

C20_Exhaustion_Valid ==
    /\ [](C20_Count /\ C20_Shown)
    /\ [][C20_Step_Valid]_vars
    /\ (pc = "open" /\ C20_AllValid) ~> C20_Exhausted

\* two entries were usable at App::new; after outcome events both are in
\* unusable, nothing is shown, and one more outcome event was handled
C20_Witness ==
    /\ C20_Exhausted
    /\ Len(loaded) = 2
    /\ \A n \in DOMAIN loaded : ~loaded[n].timed_out
    /\ Len(unusable) = 2
    /\ last.op \in {"CorrectPressed", "IncorrectPressed"}
    /\ Len(trace) = 2

====
